---- MODULE Spec2Model ----
(***************************************************************************)
(* Verification model of gentleRpc (JSON-RPC 2.0 over HTTP and WebSocket). *)
(*                                                                         *)
(*   client/validation.ts  validateResponse and its helpers                *)
(*   client/http.ts        send, processBatchArray, processBatchObject,    *)
(*                         Client.constructor, Client.call, Client.batch   *)
(*   server/ws.ts          partialEmitListener/emitListener, handleWs      *)
(*                                                                         *)
(* Five specifications share the module:                                   *)
(*   SpecValidation  applies validateResponse to every bounded input       *)
(*   SpecClient      one Client issuing call/batch against a transport     *)
(*   Spec            two channels, subscriptions and the emission bus      *)
(*   SpecFrames      one channel receiving every kind of inbound frame     *)
(*   SpecTable       one channel handed any table, and the emission bus    *)
(***************************************************************************)
EXTENDS Integers, Sequences, FiniteSets, TLC

(***************************************************************************)
(* JSON values as a closed tagged variant.  Absent marks a key an object   *)
(* does not carry; it is never a value.                                    *)
(***************************************************************************)
Undef == [t |-> "undefined"]
Null == [t |-> "null"]
Absent == [t |-> "absent"]
Num(n) == [t |-> "number", n |-> n]
Str(s) == [t |-> "string", s |-> s]
Bool(b) == [t |-> "boolean", b |-> b]
Arr(a) == [t |-> "array", a |-> a]

\* An object literal: the keys of v whose value is not Absent.
Obj(v) == [t |-> "object", f |-> [k \in {x \in DOMAIN v : v[x] # Absent} |-> v[k]]]

\* typeof v
TypeOf(v) == IF v.t \in {"null", "array", "object"} THEN "object" ELSE v.t

\* v is null or undefined: a property read on it throws a TypeError.
Nullish(v) == v.t \in {"null", "undefined"}

\* v.k for a v that is not nullish (primitives and arrays carry none of the keys used here).
Get(v, k) == IF v.t = "object" /\ k \in DOMAIN v.f THEN v.f[k] ELSE Undef

\* v?.k
OptGet(v, k) == IF Nullish(v) THEN Undef ELSE Get(v, k)

(***************************************************************************)
(* Errors.  One record shape for every thrown value.                       *)
(***************************************************************************)
BadServerDataError(id, message, code, data) ==
    [name |-> "BadServerDataError", id |-> id, message |-> message, code |-> code, data |-> data]

\* A native error (TypeError, SyntaxError): it has a message, no id, code or data.
NativeError(name, message) ==
    [name |-> name, id |-> Undef, message |-> Str(message), code |-> Undef, data |-> Undef]

Return(v) == [kind |-> "return", value |-> v, error |-> NativeError("none", "")]
Throw(e) == [kind |-> "throw", value |-> Undef, error |-> e]

(***************************************************************************)
(* client/validation.ts                                                    *)
(***************************************************************************)
validateRpcBasis_NoNullId(data) ==
    /\ OptGet(data, "jsonrpc") = Str("2.0")
    /\ TypeOf(Get(data, "id")) \in {"number", "string"}

validateRpcBasis(data) ==
    /\ OptGet(data, "jsonrpc") = Str("2.0")
    /\ \/ TypeOf(Get(data, "id")) = "number"
       \/ TypeOf(Get(data, "id")) = "string"
       \/ Get(data, "id") = Null

\* "result" in data; only evaluated on a value that passed validateRpcBasis, hence an object.
validateRpcSuccess(data) == data.t = "object" /\ "result" \in DOMAIN data.f

validateRpcFailure(data) ==
    /\ TypeOf(OptGet(OptGet(data, "error"), "code")) = "number"
    /\ TypeOf(Get(Get(data, "error"), "message")) = "string"

NotAnRpcResponse ==
    BadServerDataError(Null, Str("Received data is no RPC response object."), Num(-32003), Undef)

validateResponse_FailureIdNull(data) ==
    IF validateRpcBasis(data) /\ validateRpcSuccess(data) THEN Return(data)
    ELSE IF validateRpcBasis(data) /\ validateRpcFailure(data)
         THEN Throw(BadServerDataError(Null,
                                       Get(Get(data, "error"), "message"),
                                       Get(Get(data, "error"), "code"),
                                       Get(Get(data, "error"), "data")))
         ELSE Throw(NotAnRpcResponse)

validateResponse(data) ==
    IF validateRpcBasis(data) /\ validateRpcSuccess(data) THEN Return(data)
    ELSE IF validateRpcBasis(data) /\ validateRpcFailure(data)
         THEN Throw(BadServerDataError(Get(data, "id"),
                                       Get(Get(data, "error"), "message"),
                                       Get(Get(data, "error"), "code"),
                                       Get(Get(data, "error"), "data")))
         ELSE Throw(NotAnRpcResponse)

(***************************************************************************)
(* Bounded inputs of validateResponse: every combination of the four keys  *)
(* a response can carry, over value sets that hit each typeof test, and    *)
(* the decoded values that are not objects.                                *)
(***************************************************************************)
MaxId == 2

JsonrpcValues == {Absent, Str("2.0"), Str("1.0")}
IdValues == {Absent, Null, Str("a"), Bool(TRUE)} \cup {Num(n) : n \in 1..MaxId}
ResultValues == {Absent, Null, Num(3)}
ErrorValues ==
    {Absent, Null, Str("e"),
     Obj([code |-> Num(-32601), message |-> Str("Method not found"), data |-> Absent]),
     Obj([code |-> Num(-1), message |-> Str("m"), data |-> Str("d")]),
     Obj([code |-> Str("x"), message |-> Str("m"), data |-> Absent]),
     Obj([code |-> Num(5), message |-> Absent, data |-> Absent])}

ResponseObjects ==
    {Obj([jsonrpc |-> j, id |-> i, result |-> r, error |-> e]) :
        j \in JsonrpcValues, i \in IdValues, r \in ResultValues, e \in ErrorValues}

NonObjects == {Undef, Null, Num(1), Str("x"), Bool(FALSE), Arr(<<>>), Arr(<<Num(1)>>)}

ResponseInputs == ResponseObjects \cup NonObjects

Pending == [kind |-> "pending", value |-> Undef, error |-> NativeError("none", "")]

VARIABLES
    vdata,      \* the decoded value handed to validateResponse
    vout        \* Pending, or what validateResponse returned or threw

vvars == <<vdata, vout>>


Validate ==
    /\ vout = Pending
    /\ vout' = validateResponse(vdata)
    /\ UNCHANGED vdata

(***************************************************************************)
(* client/http.ts: the transport and send                                  *)
(***************************************************************************)
\* The body of a response that is not JSON: res.json() rejects on it.
Malformed == [t |-> "malformed"]

\* What fetch settles with: a rejection (no response at all) or a response.
FetchRejected == [kind |-> "reject", status |-> 0, contentLength0 |-> FALSE, body |-> Undef]
FetchResponse(status, cl0, body) ==
    [kind |-> "response", status |-> status, contentLength0 |-> cl0, body |-> body]

\* res.ok
Ok(res) == res.status >= 200 /\ res.status <= 299

\* The .then callback of send
sendThen(res) ==
    IF ~Ok(res)
    THEN Throw(BadServerDataError(Null, Str("received instead of 200-299 range."), Num(-32002), Undef))
    ELSE IF res.status = 204 \/ res.contentLength0
         THEN Return(Undef)
         ELSE IF res.body = Malformed
              THEN Throw(NativeError("SyntaxError", "Unexpected token"))
              ELSE Return(res.body)

\* The .catch callback of send: it is chained after .then, so it sees the
\* rejections of fetch, of res.json() and of the .then callback itself.
sendCatch(p) ==
    IF p.kind = "throw"
    THEN Throw(BadServerDataError(Null, p.error.message, Num(-32001), Undef))
    ELSE p

send(fo) ==
    sendCatch(IF fo.kind = "reject"
              THEN Throw(NativeError("TypeError", "error sending request"))
              ELSE sendThen(fo))

(***************************************************************************)
(* client/http.ts: processBatchArray, processBatchObject                   *)
(***************************************************************************)
RECURSIVE MapResults(_, _, _)
\* rpcResponseBatch.map(...) from element i on; out holds the results so far.
\* The first element validateResponse throws on ends the map with that error.
MapResults(a, i, out) ==
    IF i > Len(a) THEN Return(Arr(out))
    ELSE LET v == validateResponse(a[i])
         IN  IF v.kind = "throw" THEN v
             ELSE MapResults(a, i + 1, Append(out, Get(v.value, "result")))

processBatchArray_Reversed(rpcResponseBatch) ==
    MapResults([i \in 1..Len(rpcResponseBatch.a) |->
                  rpcResponseBatch.a[Len(rpcResponseBatch.a) + 1 - i]], 1, <<>>)

processBatchArray(rpcResponseBatch) == MapResults(rpcResponseBatch.a, 1, <<>>)

\* The property key a value is converted to when it indexes an object.
PropertyKey(v) ==
    CASE v.t = "string" -> v.s
      [] v.t = "number" -> ToString(v.n)
      [] v.t = "boolean" -> IF v.b THEN "true" ELSE "false"
      [] v.t = "null" -> "null"
      [] OTHER -> "undefined"

EmptyObject == [k \in {} |-> Undef]

RECURSIVE ReduceObject(_, _, _)
\* rpcResponseBatch.reduce(...) from element i on.  In
\*   acc[rpcResponse.id] = validateResponse(rpcResponse).result
\* the key rpcResponse.id is read before validateResponse runs.
ReduceObject(a, i, acc) ==
    IF i > Len(a) THEN Return([t |-> "object", f |-> acc])
    ELSE IF Nullish(a[i])
         THEN Throw(NativeError("TypeError", "Cannot read properties of null"))
         ELSE LET key == PropertyKey(Get(a[i], "id"))
                  v == validateResponse(a[i])
              IN  IF v.kind = "throw" THEN v
                  ELSE ReduceObject(a, i + 1, (key :> Get(v.value, "result")) @@ acc)

processBatchObject(rpcResponseBatch) == ReduceObject(rpcResponseBatch.a, 1, EmptyObject)

(***************************************************************************)
(* client/http.ts: Client.constructor and the headers of a request         *)
(***************************************************************************)
\* A Headers object: lower-cased name |-> the values appended under it.
NoHeaders == [k \in {} |-> <<>>]

HeadersSet(h, name, value) == (name :> <<value>>) @@ h

HeadersAppend(h, name, value) ==
    IF name \in DOMAIN h THEN [h EXCEPT ![name] = Append(@, value)]
    ELSE (name :> <<value>>) @@ h

\* new Client(resource, options): options.headers, or an empty Headers, with
\* Content-Type set.
constructor(optionsHeaders) == HeadersSet(optionsHeaders, "content-type", <<"application/json">>)

\* if (jwt): undefined and the empty string attach nothing.
Truthy(jwt) == jwt # "undefined" /\ jwt # ""

\* The headers Client.call hands to send.
callHeaders(stored, jwt) ==
    IF Truthy(jwt)
    THEN HeadersAppend(stored, "authorization", <<"Bearer", jwt>>)
    ELSE stored

callStored_Append(stored, jwt) == callHeaders(stored, jwt)

\* this.fetchInit.headers after Client.call: the credential goes into a new
\* Headers built from the entries of the stored one, which is only read.
callStored(stored, jwt) == stored

(***************************************************************************)
(* client/http.ts: Client.call, Client.batch                               *)
(***************************************************************************)
InvalidBatchReply ==
    BadServerDataError(Null, Str("The server returned an invalid batch response."), Num(-32004), Undef)

callThen_EmptyIsNothing(rpcResponse, isNotification) ==
    IF rpcResponse = Undef
    THEN Return(Undef)
    ELSE LET v == validateResponse(rpcResponse)
         IN  IF v.kind = "throw" THEN v ELSE Return(Get(v.value, "result"))

\* The .then callback of Client.call
callThen(rpcResponse, isNotification) ==
    IF rpcResponse = Undef /\ isNotification
    THEN Return(Undef)
    ELSE LET v == validateResponse(rpcResponse)
         IN  IF v.kind = "throw" THEN v ELSE Return(Get(v.value, "result"))

batchThen_NoLengthCheck(rpcResponseBatch, style, isNotification) ==
    IF rpcResponseBatch = Undef /\ isNotification
    THEN Return(rpcResponseBatch)
    ELSE IF rpcResponseBatch.t = "array"
         THEN IF style = "array"
              THEN processBatchArray(rpcResponseBatch)
              ELSE processBatchObject(rpcResponseBatch)
         ELSE Throw(InvalidBatchReply)

\* The .then callback of Client.batch; style is Array.isArray(batchObj).
batchThen(rpcResponseBatch, style, isNotification) ==
    IF rpcResponseBatch = Undef /\ isNotification
    THEN Return(rpcResponseBatch)
    ELSE IF rpcResponseBatch.t = "array" /\ Len(rpcResponseBatch.a) > 0
         THEN IF style = "array"
              THEN processBatchArray(rpcResponseBatch)
              ELSE processBatchObject(rpcResponseBatch)
         ELSE Throw(InvalidBatchReply)

\* What the promise returned by call or batch settles with, given fetch's
\* outcome: a rejection of send passes through .then, a value goes to its callback.
Settle(req, fo) ==
    LET p == send(fo)
    IN  IF p.kind = "throw" THEN p
        ELSE IF req.op = "call"
             THEN callThen(p.value, req.isNotification)
             ELSE batchThen(p.value, req.style, req.isNotification)

(***************************************************************************)
(* Bounded transport outcomes                                              *)
(***************************************************************************)
MaxReply == 2

Statuses == {200, 204, 404, 500}

Success(id, result) == Obj([jsonrpc |-> Str("2.0"), id |-> id, result |-> result, error |-> Absent])
Failure(id, code, message) ==
    Obj([jsonrpc |-> Str("2.0"), id |-> id, result |-> Absent,
         error |-> Obj([code |-> code, message |-> message, data |-> Absent])])

\* Elements of a batch reply: responses, and values that are no responses.
ReplyElements ==
    {Null, Num(1), Obj([jsonrpc |-> Str("1.0"), id |-> Num(1), result |-> Num(3), error |-> Absent]),
     Success(Num(1), Num(3)), Success(Str("a"), Num(5)), Success(Str("b"), Num(7)),
     Success(Null, Str("r")),
     Failure(Num(1), Num(-32601), Str("Method not found"))}

RECURSIVE SeqsUpTo(_, _)
SeqsUpTo(S, n) ==
    IF n = 0 THEN {<<>>}
    ELSE LET shorter == SeqsUpTo(S, n - 1)
         IN  shorter \cup {Append(q, x) : q \in shorter, x \in S}

Bodies ==
    {Malformed, Null, Num(1), Str("x")}
    \cup ReplyElements
    \cup {Arr(a) : a \in SeqsUpTo(ReplyElements, MaxReply)}

FetchOutcomes ==
    {FetchRejected} \cup {FetchResponse(st, cl0, b) : st \in Statuses, cl0 \in BOOLEAN, b \in Bodies}

\* The ids createRequestBatch gives the requests of a batch, in the order of
\* the input.
RequestIds == {Str("a"), Str("b")}

BatchIds ==
    {ids \in SeqsUpTo(RequestIds, MaxReply) :
        /\ ids # <<>>
        /\ \A i, j \in 1..Len(ids) : ids[i] = ids[j] => i = j}

\* The jwt option of Client.call
Jwts == {"undefined", "", "t1"}

\* options.headers handed to the constructor
OptionsHeaders == {NoHeaders, "authorization" :> << <<"Basic", "u">> >>}

NoRequest == [op |-> "idle", style |-> "none", isNotification |-> FALSE, ids |-> <<>>, jwt |-> "undefined"]

VARIABLES
    creq,       \* the call or batch in progress, or NoRequest
    cres,       \* what fetch settled with for creq
    csettled,   \* Pending, or what the promise of creq settled with
    cheaders,   \* this.fetchInit.headers
    csent,      \* the headers handed to send for creq
    cbearer     \* whether a call before creq carried a credential

cvars == <<creq, cres, csettled, cheaders, csent, cbearer>>


\* Client.call(method, params, {isNotification}): the request is sent.
ClientCall ==
    /\ \/ creq = NoRequest
       \/ csettled # Pending
    /\ \E n \in BOOLEAN, jwt \in Jwts :
         /\ creq' = [op |-> "call", style |-> "none", isNotification |-> n, ids |-> <<>>, jwt |-> jwt]
         /\ csent' = callHeaders(cheaders, jwt)
         /\ cheaders' = callStored(cheaders, jwt)
    /\ cbearer' = (cbearer \/ Truthy(creq.jwt))
    /\ cres' = FetchRejected
    /\ csettled' = Pending

\* Client.batch(batchObj, isNotification): the batch is sent.
ClientBatch ==
    /\ \/ creq = NoRequest
       \/ csettled # Pending
    /\ \E st \in {"array", "object"}, n \in BOOLEAN, ids \in BatchIds :
         creq' = [op |-> "batch", style |-> st, isNotification |-> n, ids |-> ids, jwt |-> "undefined"]
    /\ csent' = cheaders
    /\ cres' = FetchRejected
    /\ csettled' = Pending
    /\ cbearer' = (cbearer \/ Truthy(creq.jwt))
    /\ UNCHANGED cheaders

\* fetch settles and the promise chain of send and of call/batch runs.
ClientSettle ==
    /\ creq # NoRequest
    /\ csettled = Pending
    /\ \E fo \in FetchOutcomes :
         /\ cres' = fo
         /\ csettled' = Settle(creq, fo)
    /\ UNCHANGED <<creq, cheaders, csent, cbearer>>

(***************************************************************************)
(* server: requests, the validator and the builder.  server/validation.ts  *)
(* and server/creation.ts are modelled from the specification (4.1-4.3).   *)
(***************************************************************************)
Chans == {"A", "B"}

\* The capabilities of the embedding application, and the internal ones.
UserMethods == {"priceUpdate", "boom"}
InternalMethods == {"subscribe", "unsubscribe"}

\* The effective registry handed to handleWs.
Registry(disableInternalMethods) ==
    UserMethods \cup (IF disableInternalMethods THEN {} ELSE InternalMethods)

\* A decoded request object; id = Undef for a notification.
Item(jsonrpc, method, params, id) ==
    [jsonrpc |-> jsonrpc, method |-> method, params |-> params, id |-> id]

\* Server responses, and the two placeholders of a batch slot.
Nothing == [kind |-> "nothing", id |-> Undef, result |-> Undef, code |-> 0]
Waiting == [kind |-> "waiting", id |-> Undef, result |-> Undef, code |-> 0]
SuccessResponse(id, result) == [kind |-> "result", id |-> id, result |-> result, code |-> 0]
ErrorResponse(id, code) == [kind |-> "error", id |-> id, result |-> Undef, code |-> code]

validateRpcRequestObject(item, methods) ==
    IF item.jsonrpc # "2.0"
    THEN [isError |-> TRUE, code |-> -32600, method |-> item.method, params |-> item.params,
          id |-> IF item.id.t \in {"number", "string"} THEN item.id ELSE Null]
    ELSE IF item.method \notin methods
         THEN [isError |-> TRUE, code |-> -32601, method |-> item.method,
               params |-> item.params, id |-> item.id]
         ELSE [isError |-> FALSE, code |-> 0, method |-> item.method,
               params |-> item.params, id |-> item.id]

\* What createResponseObject resolves with once the capability has run.
createResponseObject(vo) ==
    IF vo.id = Undef THEN Nothing
    ELSE IF vo.isError THEN ErrorResponse(vo.id, vo.code)
         ELSE IF vo.method = "boom" THEN ErrorResponse(vo.id, -32603)
              ELSE IF vo.method \in InternalMethods
                   THEN SuccessResponse(vo.id, Str("ok"))
                   ELSE SuccessResponse(vo.id, vo.params)

\* The subscription table after the capability of vo has run on table st.
StoreAfter(st, vo) ==
    IF vo.isError \/ vo.method \notin InternalMethods THEN st
    ELSE LET m == vo.params.method
             old == IF m \in DOMAIN st THEN st[m] ELSE {}
         IN  IF vo.method = "subscribe"
             THEN (m :> (old \cup {vo.params.id})) @@ st
             ELSE IF m \in DOMAIN st THEN (m :> (old \ {vo.params.id})) @@ st ELSE st

\* What a frame's construction hands to the write: some = it is truthy.
Single(r) == [some |-> r # Nothing, batch |-> FALSE, rs |-> IF r # Nothing THEN <<r>> ELSE <<>>]

cleanBatch(res) ==
    LET kept == SelectSeq(res, LAMBDA r : r # Nothing)
    IN  [some |-> Len(kept) > 0, batch |-> TRUE, rs |-> kept]

(***************************************************************************)
(* server/ws.ts: state                                                     *)
(***************************************************************************)
MaxInputs == 3      \* text frames received and emissions raised, over all channels
MaxBatch == 2       \* items of an inbound batch

SubMethods == {"priceUpdate"}
SubIds == {"s1", "s2"}
EmitParams == {Num(1)}

EmptyStore == [m \in {} |-> {}]

\* The methodsAndIdsStore a caller may hand to handleWs.
Tables == {EmptyStore, "priceUpdate" :> {"s1"}, "boom" :> {"s2"}}

NoFrame == [batch |-> FALSE, items |-> <<>>]
NoOut == [batch |-> FALSE, rs |-> <<>>]

VARIABLES
    pc,         \* per channel: "idle" (no handleWs yet), "loop", "done" (handleWs returned),
                \* "raised" (handleWs rejected)
    disable,    \* per channel: options.disableInternalMethods
    sock,       \* per channel: "open" or "closed" (socket.isClosed)
    listeners,  \* channels whose emitListener is registered for "emit"
    store,      \* per channel: methodsAndIdsStore, method -> set of ids
    jobs,       \* per channel: text frames whose construction is awaited
    nframes,    \* per channel: text frames received so far
    frame,      \* per channel: the text frame of the current or last loop iteration
    closeSeen,  \* per channel: a close frame was received
    replies,    \* per channel: the writes attempted for inbound frames, in order
    lastOut,    \* per channel: what the last of these writes carried
    emitted,    \* the emissions raised so far, in order
    tasks,      \* the per-id continuations of emitListener still awaiting the builder
    pushed,     \* per channel: the writes attempted by emitListener, in order
    catchSock,  \* per channel: socket.isClosed as the catch block found it, "none" before
    closeCalls  \* per channel: the codes socket.close was called with

wvars == <<pc, disable, sock, listeners, store, jobs, nframes, frame, closeSeen, replies, lastOut,
           emitted, tasks, pushed, catchSock, closeCalls>>

(***************************************************************************)
(* server/ws.ts: handleWs                                                  *)
(***************************************************************************)
\* addEventListener("emit", emitListener) unless internal methods are disabled
connectListeners_Always(c, disableInternalMethods) == listeners \cup {c}

connectListeners(c, disableInternalMethods) ==
    IF ~disableInternalMethods THEN listeners \cup {c} ELSE listeners

\* handleWs is called for channel c with options d and the table st.
Connect(c, d, st) ==
    /\ pc[c] = "idle"
    /\ pc' = [pc EXCEPT ![c] = "loop"]
    /\ disable' = [disable EXCEPT ![c] = d]
    /\ store' = [store EXCEPT ![c] = st]
    /\ listeners' = connectListeners(c, d)
    /\ UNCHANGED <<sock, jobs, nframes, frame, closeSeen, replies, lastOut, emitted, tasks, pushed,
                   catchSock, closeCalls>>

loopFree_NoAwait(c) == TRUE

\* The body of the for-await loop awaits the construction and the write of a
\* frame: the next event is taken only when no frame is in progress.
loopFree(c) == jobs[c] = {}

\* Text frames received so far, over all channels.
FramesReceived == nframes["A"] + nframes["B"]

CanReceive(c) == pc[c] = "loop" /\ loopFree(c) /\ ~closeSeen[c]

shouldSend_Always(out) == TRUE

shouldSend_Batch(out) == out.some \/ out.batch

\* if (responseObjectOrBatchOrNull)
shouldSend(out) == out.some

\* removeEventListener in the catch block
catchListeners(c) == IF ~disable[c] THEN listeners \ {c} ELSE listeners

shouldClose_Always(isClosed) == TRUE

\* if (!socket.isClosed)
shouldClose(isClosed) == ~isClosed

\* The codes socket.close is called with in the catch block.
catchCloses(c) == IF shouldClose(sock[c] = "closed") THEN <<1000>> ELSE <<>>

\* How handleWs ends after the catch block, closeOk being the outcome of
\* socket.close if it was called: .catch(console.error) takes its rejection.
catchEnd(closeOk) == "done"

\* The catch block of handleWs.
Catch(c) ==
    /\ listeners' = catchListeners(c)
    /\ catchSock' = [catchSock EXCEPT ![c] = sock[c]]
    /\ closeCalls' = [closeCalls EXCEPT ![c] = @ \o catchCloses(c)]
    /\ \E closeOk \in BOOLEAN : pc' = [pc EXCEPT ![c] = catchEnd(closeOk)]

\* The awaited construction of frame k has resolved with res: its output is
\* written if there is one.  A write on a closed socket throws into the catch
\* block, which ends handleWs.
WriteOut(c, k, batch, res) ==
    LET out == IF batch THEN cleanBatch(res) ELSE Single(res[1])
    IN  IF shouldSend(out)
        THEN /\ replies' = [replies EXCEPT ![c] = Append(@, [k |-> k, ok |-> sock[c] = "open"])]
             /\ lastOut' = [lastOut EXCEPT ![c] = [batch |-> batch, rs |-> out.rs]]
             /\ IF sock[c] = "open"
                THEN UNCHANGED <<pc, listeners, catchSock, closeCalls>>
                ELSE Catch(c)
        ELSE UNCHANGED <<replies, lastOut, pc, listeners, catchSock, closeCalls>>

\* A text frame arrives: validateRequest, then createResponseObject is
\* started for the message, or for each item of a batch.  A batch without
\* items has nothing to await.
ReceiveText(c, fr) ==
    /\ CanReceive(c)
    /\ FramesReceived + Len(emitted) < MaxInputs
    /\ frame' = [frame EXCEPT ![c] = fr]
    /\ nframes' = [nframes EXCEPT ![c] = @ + 1]
    /\ LET n == Len(fr.items)
           job == [k |-> nframes[c] + 1,
                   batch |-> fr.batch,
                   vos |-> [i \in 1..n |->
                              validateRpcRequestObject(fr.items[i], Registry(disable[c]))],
                   res |-> [i \in 1..n |-> Waiting]]
       IN  IF n = 0
           THEN /\ WriteOut(c, job.k, fr.batch, <<>>)
                /\ UNCHANGED jobs
           ELSE /\ jobs' = [jobs EXCEPT ![c] = @ \cup {job}]
                /\ UNCHANGED <<replies, lastOut, pc, listeners, catchSock, closeCalls>>
    /\ UNCHANGED <<disable, sock, store, closeSeen, emitted, tasks, pushed>>

\* The construction of item i of a frame in progress completes; with the last
\* one the awaited promise resolves and the loop body goes on to the write.
Complete(c, job, i) ==
    /\ job \in jobs[c]
    /\ i \in 1..Len(job.res)
    /\ job.res[i] = Waiting
    /\ store' = [store EXCEPT ![c] = StoreAfter(@, job.vos[i])]
    /\ LET res == [job.res EXCEPT ![i] = createResponseObject(job.vos[i])]
       IN  IF \E j \in 1..Len(res) : res[j] = Waiting
           THEN /\ jobs' = [jobs EXCEPT ![c] = (@ \ {job}) \cup {[job EXCEPT !.res = res]}]
                /\ UNCHANGED <<replies, lastOut, pc, listeners, catchSock, closeCalls>>
           ELSE /\ jobs' = [jobs EXCEPT ![c] = @ \ {job}]
                /\ WriteOut(c, job.k, job.batch, res)
    /\ UNCHANGED <<disable, sock, nframes, frame, closeSeen, emitted, tasks, pushed>>

\* A ping frame is logged only.
ReceivePing(c) ==
    /\ CanReceive(c)
    /\ UNCHANGED wvars

closeListeners_Keep(c) == listeners

\* removeEventListener on a close frame
closeListeners(c) == IF ~disable[c] THEN listeners \ {c} ELSE listeners

\* A close frame arrives; the socket is closed from then on.
ReceiveClose(c) ==
    /\ CanReceive(c)
    /\ closeSeen' = [closeSeen EXCEPT ![c] = TRUE]
    /\ sock' = [sock EXCEPT ![c] = "closed"]
    /\ listeners' = closeListeners(c)
    /\ UNCHANGED <<pc, disable, store, jobs, nframes, frame, replies, lastOut, emitted, tasks, pushed,
                   catchSock, closeCalls>>

\* Reading the next event fails: the catch block runs and handleWs returns.
ReadFail(c) ==
    /\ pc[c] = "loop"
    /\ loopFree(c)
    /\ Catch(c)
    /\ sock' = [sock EXCEPT ![c] = "closed"]
    /\ UNCHANGED <<disable, store, jobs, nframes, frame, closeSeen, replies, lastOut, emitted, tasks, pushed>>

\* The inbound sequence ends: the loop exits and handleWs returns.
LoopEnd(c) ==
    /\ pc[c] = "loop"
    /\ loopFree(c)
    /\ pc' = [pc EXCEPT ![c] = "done"]
    /\ UNCHANGED <<disable, sock, listeners, store, jobs, nframes, frame, closeSeen, replies, lastOut,
                   emitted, tasks, pushed, catchSock, closeCalls>>

\* The peer goes away: the socket is closed before the handler has read it.
SockDrop(c) ==
    /\ pc[c] # "idle"
    /\ sock[c] = "open"
    /\ sock' = [sock EXCEPT ![c] = "closed"]
    /\ UNCHANGED <<pc, disable, listeners, store, jobs, nframes, frame, closeSeen, replies, lastOut,
                   emitted, tasks, pushed, catchSock, closeCalls>>

(***************************************************************************)
(* server/ws.ts: emitListener                                              *)
(***************************************************************************)
emitListenerIds_First(st, method) ==
    IF method \in DOMAIN st /\ st[method] # {}
    THEN {CHOOSE id \in st[method] : TRUE}
    ELSE {}

\* if (methodsAndIdsStore.has(method)) ids = [...methodsAndIdsStore.get(method).values()]
emitListenerIds(st, method) == IF method \in DOMAIN st THEN st[method] ELSE {}

\* dispatchEvent(new CustomEvent("emit", {detail: {method, params}})): every
\* registered emitListener runs and starts one continuation per id.
Emit(method, params) ==
    /\ FramesReceived + Len(emitted) < MaxInputs
    /\ emitted' = Append(emitted, [method |-> method, params |-> params,
                                   idsAt |-> [c \in Chans |->
                                                IF c \in listeners /\ method \in DOMAIN store[c]
                                                THEN store[c][method] ELSE {}],
                                   closedAt |-> {c \in Chans : closeSeen[c]}])
    /\ tasks' = tasks \cup UNION
                {{[c |-> c, e |-> Len(emitted) + 1, method |-> method, params |-> params, id |-> id] :
                     id \in emitListenerIds(store[c], method)} : c \in listeners}
    /\ UNCHANGED <<pc, disable, sock, listeners, store, jobs, nframes, frame, closeSeen, replies, lastOut,
                   pushed, catchSock, closeCalls>>

\* The response emitListener builds for one id.
pushResponse(task) ==
    createResponseObject(
        validateRpcRequestObject(Item("2.0", task.method, task.params, Str(task.id)),
                                 Registry(disable[task.c])))

pushWrites_OpenOnly(task) == pushResponse(task) # Nothing /\ sock[task.c] = "open"

\* if (response): the write is attempted whatever the state of the socket.
pushWrites(task) == pushResponse(task) # Nothing

pushFailListeners_Keep(c) == listeners

pushFailListeners_All(c) == {}

\* catch { removeEventListener("emit", emitListener) }
pushFailListeners(c) == listeners \ {c}

pushRemaining_Retry(task, ok) == IF ok THEN tasks \ {task} ELSE tasks

\* The continuation of one id ends with its write, sent or failed.
pushRemaining(task, ok) == tasks \ {task}

\* await createResponseObject(...) resumes for one id: the response is written;
\* a failed write removes the listener.
PushComplete(task) ==
    /\ task \in tasks
    /\ LET response == pushResponse(task)
           ok == sock[task.c] = "open"
       IN  IF pushWrites(task)
           THEN /\ pushed' = [pushed EXCEPT ![task.c] =
                                Append(@, [e |-> task.e, id |-> task.id, response |-> response, ok |-> ok])]
                /\ listeners' = IF ok THEN listeners ELSE pushFailListeners(task.c)
                /\ tasks' = pushRemaining(task, ok)
           ELSE /\ tasks' = tasks \ {task}
                /\ UNCHANGED <<pushed, listeners>>
    /\ UNCHANGED <<pc, disable, sock, store, jobs, nframes, frame, closeSeen, replies, lastOut, emitted,
                   catchSock, closeCalls>>

(***************************************************************************)
(* Bounded inbound frames                                                  *)
(***************************************************************************)
SingleFrame(item) == [batch |-> FALSE, items |-> <<item>>]
BatchFrame(items) == [batch |-> TRUE, items |-> items]

\* subscribe / unsubscribe requests
SubFrames ==
    {SingleFrame(Item("2.0", op, [method |-> m, id |-> s], Str("q"))) :
        op \in InternalMethods, m \in SubMethods, s \in SubIds}

\* The items of a batch: item i carries the id i, or none.
BatchItems(i) ==
    {Item("2.0", "priceUpdate", Num(i), Num(i)),
     Item("2.0", "priceUpdate", Num(i), Undef),
     Item("2.0", "nope", Num(i), Num(i))}

RECURSIVE BatchesOf(_)
BatchesOf(n) ==
    IF n = 0 THEN {<<>>}
    ELSE {Append(b, it) : b \in BatchesOf(n - 1), it \in BatchItems(n)}

HandlerFrames ==
    {SingleFrame(Item(j, m, Num(1), id)) :
        j \in {"2.0", "1.0"}, m \in {"priceUpdate", "boom", "nope"}, id \in {Undef, Str("r")}}
    \cup {BatchFrame(b) : b \in UNION {BatchesOf(n) : n \in 0..MaxBatch}}

(***************************************************************************)
(* Specifications                                                          *)
(***************************************************************************)
vars == <<vvars, cvars, wvars>>

\* No client call issued, no channel connected, nothing emitted.
Init ==
    /\ vdata = Undef
    /\ vout = Pending
    /\ creq = NoRequest
    /\ cres = FetchRejected
    /\ csettled = Pending
    /\ cheaders = constructor(NoHeaders)
    /\ csent = NoHeaders
    /\ cbearer = FALSE
    /\ pc = [c \in Chans |-> "idle"]
    /\ disable = [c \in Chans |-> FALSE]
    /\ sock = [c \in Chans |-> "open"]
    /\ listeners = {}
    /\ store = [c \in Chans |-> EmptyStore]
    /\ jobs = [c \in Chans |-> {}]
    /\ nframes = [c \in Chans |-> 0]
    /\ frame = [c \in Chans |-> NoFrame]
    /\ closeSeen = [c \in Chans |-> FALSE]
    /\ replies = [c \in Chans |-> <<>>]
    /\ lastOut = [c \in Chans |-> NoOut]
    /\ emitted = <<>>
    /\ tasks = {}
    /\ pushed = [c \in Chans |-> <<>>]
    /\ catchSock = [c \in Chans |-> "none"]
    /\ closeCalls = [c \in Chans |-> <<>>]

\* As Init, with the input of validateResponse drawn from the bounded inputs.
InitValidation ==
    /\ vdata \in ResponseInputs
    /\ vout = Pending
    /\ creq = NoRequest
    /\ cres = FetchRejected
    /\ csettled = Pending
    /\ cheaders = constructor(NoHeaders)
    /\ csent = NoHeaders
    /\ cbearer = FALSE
    /\ pc = [c \in Chans |-> "idle"]
    /\ disable = [c \in Chans |-> FALSE]
    /\ sock = [c \in Chans |-> "open"]
    /\ listeners = {}
    /\ store = [c \in Chans |-> EmptyStore]
    /\ jobs = [c \in Chans |-> {}]
    /\ nframes = [c \in Chans |-> 0]
    /\ frame = [c \in Chans |-> NoFrame]
    /\ closeSeen = [c \in Chans |-> FALSE]
    /\ replies = [c \in Chans |-> <<>>]
    /\ lastOut = [c \in Chans |-> NoOut]
    /\ emitted = <<>>
    /\ tasks = {}
    /\ pushed = [c \in Chans |-> <<>>]
    /\ catchSock = [c \in Chans |-> "none"]
    /\ closeCalls = [c \in Chans |-> <<>>]

\* As Init, with the Client constructed from any of the bounded options.
InitClient ==
    /\ vdata = Undef
    /\ vout = Pending
    /\ creq = NoRequest
    /\ cres = FetchRejected
    /\ csettled = Pending
    /\ cheaders \in {constructor(h) : h \in OptionsHeaders}
    /\ csent = NoHeaders
    /\ cbearer = FALSE
    /\ pc = [c \in Chans |-> "idle"]
    /\ disable = [c \in Chans |-> FALSE]
    /\ sock = [c \in Chans |-> "open"]
    /\ listeners = {}
    /\ store = [c \in Chans |-> EmptyStore]
    /\ jobs = [c \in Chans |-> {}]
    /\ nframes = [c \in Chans |-> 0]
    /\ frame = [c \in Chans |-> NoFrame]
    /\ closeSeen = [c \in Chans |-> FALSE]
    /\ replies = [c \in Chans |-> <<>>]
    /\ lastOut = [c \in Chans |-> NoOut]
    /\ emitted = <<>>
    /\ tasks = {}
    /\ pushed = [c \in Chans |-> <<>>]
    /\ catchSock = [c \in Chans |-> "none"]
    /\ closeCalls = [c \in Chans |-> <<>>]


\* validateResponse applied to every bounded input
ValidateInput == Validate /\ UNCHANGED <<cvars, wvars>>

ValidationNext == ValidateInput

SpecValidation ==
    InitValidation /\ [][ValidationNext]_vars

\* One Client against the transport
CallIssued == ClientCall /\ UNCHANGED <<vvars, wvars>>
BatchIssued == ClientBatch /\ UNCHANGED <<vvars, wvars>>
Settled == ClientSettle /\ UNCHANGED <<vvars, wvars>>

ClientNext == CallIssued \/ BatchIssued \/ Settled

SpecClient ==
    InitClient /\ [][ClientNext]_vars

\* Two channels, subscription frames and the emission bus
WsConnect == (\E c \in Chans, d \in BOOLEAN : Connect(c, d, EmptyStore)) /\ UNCHANGED <<vvars, cvars>>
WsReceiveText == (\E c \in Chans, fr \in SubFrames : ReceiveText(c, fr)) /\ UNCHANGED <<vvars, cvars>>
WsComplete == (\E c \in Chans : \E job \in jobs[c] : \E i \in 1..Len(job.res) : Complete(c, job, i)) /\ UNCHANGED <<vvars, cvars>>
WsReceivePing == (\E c \in Chans : ReceivePing(c)) /\ UNCHANGED <<vvars, cvars>>
WsReceiveClose == (\E c \in Chans : ReceiveClose(c)) /\ UNCHANGED <<vvars, cvars>>
WsReadFail == (\E c \in Chans : ReadFail(c)) /\ UNCHANGED <<vvars, cvars>>
WsLoopEnd == (\E c \in Chans : LoopEnd(c)) /\ UNCHANGED <<vvars, cvars>>
WsSockDrop == (\E c \in Chans : SockDrop(c)) /\ UNCHANGED <<vvars, cvars>>
WsEmit == (\E m \in SubMethods, p \in EmitParams : Emit(m, p)) /\ UNCHANGED <<vvars, cvars>>
WsPushComplete == (\E t \in tasks : PushComplete(t)) /\ UNCHANGED <<vvars, cvars>>

Next ==
    \/ WsConnect
    \/ WsReceiveText
    \/ WsComplete
    \/ WsReceivePing
    \/ WsReceiveClose
    \/ WsReadFail
    \/ WsLoopEnd
    \/ WsSockDrop
    \/ WsEmit
    \/ WsPushComplete

Spec ==
    Init /\ [][Next]_vars

\* One channel, every kind of inbound frame, no emission
FrConnect == (\E d \in BOOLEAN : Connect("A", d, EmptyStore)) /\ UNCHANGED <<vvars, cvars>>
FrReceiveText == (\E fr \in HandlerFrames : ReceiveText("A", fr)) /\ UNCHANGED <<vvars, cvars>>
FrComplete == (\E job \in jobs["A"] : \E i \in 1..Len(job.res) : Complete("A", job, i)) /\ UNCHANGED <<vvars, cvars>>
FrReceivePing == (ReceivePing("A")) /\ UNCHANGED <<vvars, cvars>>
FrReceiveClose == (ReceiveClose("A")) /\ UNCHANGED <<vvars, cvars>>
FrReadFail == (ReadFail("A")) /\ UNCHANGED <<vvars, cvars>>
FrLoopEnd == (LoopEnd("A")) /\ UNCHANGED <<vvars, cvars>>
FrSockDrop == (SockDrop("A")) /\ UNCHANGED <<vvars, cvars>>

FramesNext ==
    \/ FrConnect
    \/ FrReceiveText
    \/ FrComplete
    \/ FrReceivePing
    \/ FrReceiveClose
    \/ FrReadFail
    \/ FrLoopEnd
    \/ FrSockDrop

SpecFrames ==
    Init /\ [][FramesNext]_vars

\* One channel handed any table, and the emission bus; no text frames
TbConnect == (\E d \in BOOLEAN, st \in Tables : Connect("A", d, st)) /\ UNCHANGED <<vvars, cvars>>
TbReceivePing == (ReceivePing("A")) /\ UNCHANGED <<vvars, cvars>>
TbReceiveClose == (ReceiveClose("A")) /\ UNCHANGED <<vvars, cvars>>
TbReadFail == (ReadFail("A")) /\ UNCHANGED <<vvars, cvars>>
TbLoopEnd == (LoopEnd("A")) /\ UNCHANGED <<vvars, cvars>>
TbSockDrop == (SockDrop("A")) /\ UNCHANGED <<vvars, cvars>>
TbEmit == (\E m \in SubMethods, p \in EmitParams : Emit(m, p)) /\ UNCHANGED <<vvars, cvars>>
TbPushComplete == (\E t \in tasks : PushComplete(t)) /\ UNCHANGED <<vvars, cvars>>

TableNext ==
    \/ TbConnect
    \/ TbReceivePing
    \/ TbReceiveClose
    \/ TbReadFail
    \/ TbLoopEnd
    \/ TbSockDrop
    \/ TbEmit
    \/ TbPushComplete

SpecTable ==
    Init /\ [][TableNext]_vars

(***************************************************************************)
(* Claims about the client (SpecClient) and validateResponse               *)
(* (SpecValidation)                                                        *)
(***************************************************************************)
IsStructuredError(e) == e.name = "BadServerDataError" /\ TypeOf(e.code) = "number"

\* The transport delivered a 2xx response whose body, if any, decoded.
TransportSucceeded(fo) ==
    /\ fo.kind = "response"
    /\ Ok(fo)
    /\ (fo.status = 204 \/ fo.contentLength0 \/ fo.body # Malformed)

\* The decoded reply of a transport that succeeded; Undef for an empty body.
DecodedReply(fo) == IF fo.status = 204 \/ fo.contentLength0 THEN Undef ELSE fo.body

NonEmptySequence(r) == r.t = "array" /\ Len(r.a) > 0

\* C1: a Client.call answered with a status outside 200-299 is rejected with a
\* StructuredError of code -32002 and id null.
C1_NonOkStatusRejects32002 ==
    (creq.op = "call" /\ csettled # Pending /\ cres.kind = "response" /\ ~Ok(cres))
        => /\ csettled.kind = "throw"
           /\ csettled.error.name = "BadServerDataError"
           /\ csettled.error.code = Num(-32002)
           /\ csettled.error.id = Null

\* data is {jsonrpc: "2.0", id, result} with id a number, a string or null.
SuccessShaped(data) ==
    /\ data.t = "object"
    /\ DOMAIN data.f = {"jsonrpc", "id", "result"}
    /\ data.f["jsonrpc"] = Str("2.0")
    /\ data.f["id"].t \in {"number", "string", "null"}

\* data is {jsonrpc: "2.0", id, error: {code, message, data?}} with a numeric
\* code and a string message.
FailureShaped(data) ==
    /\ data.t = "object"
    /\ DOMAIN data.f = {"jsonrpc", "id", "error"}
    /\ data.f["jsonrpc"] = Str("2.0")
    /\ data.f["id"].t \in {"number", "string", "null"}
    /\ data.f["error"].t = "object"
    /\ {"code", "message"} \subseteq DOMAIN data.f["error"].f
    /\ data.f["error"].f["code"].t = "number"
    /\ data.f["error"].f["message"].t = "string"

\* C7: validateResponse returns a success-shaped response with its result
\* untouched, and throws for a failure-shaped response a StructuredError whose
\* id, code, message and data are those of the response.
C7_ValidateRoundTrip ==
    vout # Pending =>
        /\ SuccessShaped(vdata) =>
              /\ vout.kind = "return"
              /\ Get(vout.value, "result") = vdata.f["result"]
        /\ FailureShaped(vdata) =>
              /\ vout.kind = "throw"
              /\ vout.error.name = "BadServerDataError"
              /\ vout.error.id = vdata.f["id"]
              /\ vout.error.code = vdata.f["error"].f["code"]
              /\ vout.error.message = vdata.f["error"].f["message"]
              /\ vout.error.data = IF "data" \in DOMAIN vdata.f["error"].f
                                   THEN vdata.f["error"].f["data"] ELSE Undef

C7_Witness ==
    /\ FailureShaped(vdata)
    /\ vdata.f["id"] = Num(1)
    /\ vout.kind = "throw"
    /\ vout.error.data = Str("d")

\* data is an object with jsonrpc "2.0" and an id that is a number, a string or null.
ValidBasis(data) ==
    /\ data.t = "object"
    /\ "jsonrpc" \in DOMAIN data.f
    /\ data.f["jsonrpc"] = Str("2.0")
    /\ "id" \in DOMAIN data.f
    /\ data.f["id"].t \in {"number", "string", "null"}

\* data.error.code is a number and data.error.message is a string.
FailureFields(data) ==
    /\ "error" \in DOMAIN data.f
    /\ data.f["error"].t = "object"
    /\ "code" \in DOMAIN data.f["error"].f
    /\ data.f["error"].f["code"].t = "number"
    /\ "message" \in DOMAIN data.f["error"].f
    /\ data.f["error"].f["message"].t = "string"

\* C8: validateResponse has three outcomes: a valid basis with a result key is
\* returned; a valid basis without one whose error has a numeric code and a
\* string message raises that error; every other value raises code -32003
\* with id null.
C8_ValidateClassifies ==
    vout # Pending =>
        IF ValidBasis(vdata) /\ "result" \in DOMAIN vdata.f
        THEN vout = Return(vdata)
        ELSE IF ValidBasis(vdata) /\ FailureFields(vdata)
             THEN /\ vout.kind = "throw"
                  /\ vout.error.id = vdata.f["id"]
                  /\ vout.error.code = vdata.f["error"].f["code"]
                  /\ vout.error.message = vdata.f["error"].f["message"]
             ELSE /\ vout.kind = "throw"
                  /\ vout.error.name = "BadServerDataError"
                  /\ vout.error.code = Num(-32003)
                  /\ vout.error.id = Null

C8_Witness ==
    /\ ValidBasis(vdata)
    /\ vdata.f["id"] = Null
    /\ "result" \notin DOMAIN vdata.f
    /\ ~FailureFields(vdata)
    /\ vout.kind = "throw"
    /\ vout.error.code = Num(-32003)

\* C9: a call or batch that is not a notification resolves with a result or is
\* rejected with a StructuredError carrying a numeric code, whatever the
\* transport delivers.
C9_SettlesWithResultOrStructuredError ==
    (creq # NoRequest /\ ~creq.isNotification /\ csettled # Pending)
        => \/ csettled.kind = "return"
           \/ csettled.kind = "throw" /\ IsStructuredError(csettled.error)

\* C10 as stated: whatever isNotification is, a batch whose transport succeeds
\* fails with code -32004 and id null when the reply is not a non-empty sequence.
C10_InvalidBatchReplyAlways32004 ==
    (/\ creq.op = "batch"
     /\ csettled # Pending
     /\ TransportSucceeded(cres)
     /\ ~NonEmptySequence(DecodedReply(cres)))
        => /\ csettled.kind = "throw"
           /\ csettled.error.name = "BadServerDataError"
           /\ csettled.error.code = Num(-32004)
           /\ csettled.error.id = Null

\* C10 amended: a batch whose transport succeeds fails with code -32004 and id
\* null when the reply is not a non-empty sequence, except that an empty body
\* answering a batch sent with isNotification set resolves with nothing.
C10_InvalidBatchReply32004 ==
    (/\ creq.op = "batch"
     /\ csettled # Pending
     /\ TransportSucceeded(cres)
     /\ ~NonEmptySequence(DecodedReply(cres)))
        => IF creq.isNotification /\ DecodedReply(cres) = Undef
           THEN csettled = Return(Undef)
           ELSE /\ csettled.kind = "throw"
                /\ csettled.error.name = "BadServerDataError"
                /\ csettled.error.code = Num(-32004)
                /\ csettled.error.id = Null

C10_Witness ==
    /\ creq.op = "batch"
    /\ creq.style = "object"
    /\ creq.isNotification
    /\ TransportSucceeded(cres)
    /\ DecodedReply(cres) = Arr(<<>>)
    /\ csettled.kind = "throw"
    /\ csettled.error.code = Num(-32004)

(***************************************************************************)
(* Claims about the emission bus (Spec)                                    *)
(***************************************************************************)
\* The indices of the writes emitListener attempted on c for emission e.
PushesOf(c, e) == {i \in 1..Len(pushed[c]) : pushed[c][i].e = e}

\* C2: once a close frame was received on a channel with internal methods
\* enabled, its emitListener is not registered, and no emission raised after
\* the close frame starts or attempts a write on that channel.
C2_NoPushAfterClose ==
    \A c \in Chans :
        (closeSeen[c] /\ ~disable[c]) =>
            /\ c \notin listeners
            /\ \A i \in 1..Len(pushed[c]) : c \notin emitted[pushed[c][i].e].closedAt
            /\ \A t \in tasks : t.c = c => c \notin emitted[t.e].closedAt

C2_Witness ==
    \E c \in Chans, e \in 1..Len(emitted) :
        /\ closeSeen[c]
        /\ ~disable[c]
        /\ c \in emitted[e].closedAt
        /\ emitted[e].method \in DOMAIN store[c]
        /\ store[c][emitted[e].method] # {}
        /\ PushesOf(c, e) = {}

\* C3: for every emission and channel, emitListener attempts one write per id
\* the channel's table held under the method when the emission was raised
\* (none if the channel was not registered or had no entry), each carrying
\* the response to {jsonrpc: "2.0", method, params, id}.
C3_OneWritePerSubscribedId ==
    \A c \in Chans, e \in 1..Len(emitted) :
        LET em == emitted[e]
            pending == {t.id : t \in {u \in tasks : u.c = c /\ u.e = e}}
            written == {pushed[c][i].id : i \in PushesOf(c, e)}
        IN  /\ pending \cup written = em.idsAt[c]
            /\ pending \cap written = {}
            /\ Cardinality(PushesOf(c, e)) = Cardinality(written)
            /\ \A i \in PushesOf(c, e) :
                  pushed[c][i].response =
                      IF em.method \in UserMethods \ {"boom"}
                      THEN SuccessResponse(Str(pushed[c][i].id), em.params)
                      ELSE ErrorResponse(Str(pushed[c][i].id), -32601)

C3_Witness ==
    \E c \in Chans, d \in Chans, e \in 1..Len(emitted) :
        /\ Cardinality(emitted[e].idsAt[c]) = 2
        /\ Cardinality(PushesOf(c, e)) = 2
        /\ d \in listeners
        /\ emitted[e].idsAt[d] = {}
        /\ PushesOf(d, e) = {}
        /\ tasks = {}

(***************************************************************************)
(* Claims about inbound frames (SpecFrames)                                *)
(***************************************************************************)
\* The writes handleWs attempted on c for its current or last text frame.
RepliesToLast(c) == {i \in 1..Len(replies[c]) : replies[c][i].k = nframes[c]}

IsNotification(item) == item.jsonrpc = "2.0" /\ item.id = Undef

\* C4: for a frame that is a single notification nothing is written, whether
\* its method exists, is unknown or raises; what is written for a single
\* message is the one object the builder yielded.
C4_NotificationGetsNoFrame ==
    \A c \in Chans :
        (nframes[c] > 0 /\ ~frame[c].batch) =>
            /\ IsNotification(frame[c].items[1]) => RepliesToLast(c) = {}
            /\ RepliesToLast(c) # {} =>
                  /\ ~lastOut[c].batch
                  /\ Len(lastOut[c].rs) = 1
                  /\ lastOut[c].rs[1].kind \in {"result", "error"}
                  /\ lastOut[c].rs[1].id # Undef

C4_Witness ==
    \E c \in Chans :
        /\ nframes[c] = 2
        /\ jobs[c] = {}
        /\ ~frame[c].batch
        /\ IsNotification(frame[c].items[1])
        /\ frame[c].items[1].method = "boom"
        /\ Len(replies[c]) = 1

\* The response the builder yields for a well-formed request item.
ExpectedResponse(item) ==
    IF item.method = "priceUpdate"
    THEN SuccessResponse(item.id, item.params)
    ELSE ErrorResponse(item.id, IF item.method = "boom" THEN -32603 ELSE -32601)

\* The responses a batch must carry: those of its items with an id, in the
\* order of the items.
ExpectedBatch(items) ==
    LET withId == SelectSeq(items, LAMBDA it : it.id # Undef)
    IN  [i \in 1..Len(withId) |-> ExpectedResponse(withId[i])]

\* C5: when a batch has been handled, the frame written carries the responses
\* of exactly the items that produce one, in the order of the items; a batch
\* none of whose items produces a response gets no frame, and no frame is
\* ever an empty collection.
C5_BatchKeepsOrder ==
    \A c \in Chans :
        /\ (nframes[c] > 0 /\ frame[c].batch /\ jobs[c] = {}) =>
              IF ExpectedBatch(frame[c].items) = <<>>
              THEN RepliesToLast(c) = {}
              ELSE /\ Cardinality(RepliesToLast(c)) = 1
                   /\ replies[c][Len(replies[c])].k = nframes[c]
                   /\ lastOut[c] = [batch |-> TRUE, rs |-> ExpectedBatch(frame[c].items)]
        /\ (nframes[c] > 0 /\ frame[c].batch /\ jobs[c] # {}) => RepliesToLast(c) = {}
        /\ Len(replies[c]) > 0 => lastOut[c].rs # <<>>

C5_Witness ==
    \E c \in Chans :
        /\ frame[c].batch
        /\ Len(frame[c].items) = 2
        /\ frame[c].items[1].id = Undef
        /\ frame[c].items[2].id # Undef
        /\ jobs[c] = {}
        /\ RepliesToLast(c) # {}
        /\ Len(lastOut[c].rs) = 1

\* C6: a channel has at most one frame in progress, it is the frame received
\* last, every write already made belongs to an earlier frame, and the writes
\* are in the order the frames arrived.
C6_FramesInArrivalOrder ==
    \A c \in Chans :
        /\ Cardinality(jobs[c]) <= 1
        /\ \A job \in jobs[c] :
              /\ job.k = nframes[c]
              /\ \A i \in 1..Len(replies[c]) : replies[c][i].k < job.k
        /\ \A i, j \in 1..Len(replies[c]) : i < j => replies[c][i].k < replies[c][j].k

C6_Witness ==
    \E c \in Chans :
        /\ Len(replies[c]) = 2
        /\ replies[c][1].k = 1
        /\ replies[c][2].k = 2
        /\ \E job \in jobs[c] : job.k = 3

(***************************************************************************)
(* Claims about Client.batch and Client.call (SpecClient)                  *)
(***************************************************************************)
\* The batch in progress was answered with one success response for each of
\* its requests, in any order.
AnsweredEach ==
    /\ creq.op = "batch"
    /\ csettled # Pending
    /\ TransportSucceeded(cres)
    /\ LET r == DecodedReply(cres)
       IN  /\ r.t = "array"
           /\ Len(r.a) = Len(creq.ids)
           /\ \A i \in 1..Len(r.a) : SuccessShaped(r.a[i])
           /\ {r.a[i].f["id"] : i \in 1..Len(r.a)} = {creq.ids[i] : i \in 1..Len(creq.ids)}

\* The result of the response that carries the id of a request.
ResultOf(id) ==
    LET r == DecodedReply(cres)
        i == CHOOSE i \in 1..Len(r.a) : r.a[i].f["id"] = id
    IN  r.a[i].f["result"]

\* The server listed its responses in the order of the requests.
InRequestOrder ==
    LET r == DecodedReply(cres)
    IN  \A i \in 1..Len(r.a) : r.a[i].f["id"] = creq.ids[i]

\* The output of an object-style batch maps the id of every response to the
\* result of that response.
ObjectOutputById ==
    /\ csettled.kind = "return"
    /\ csettled.value.t = "object"
    /\ DOMAIN csettled.value.f = {PropertyKey(creq.ids[i]) : i \in 1..Len(creq.ids)}
    /\ \A i \in 1..Len(creq.ids) :
          csettled.value.f[PropertyKey(creq.ids[i])] = ResultOf(creq.ids[i])

\* C11 as stated: an array-style batch answered with one success response per
\* request yields the sequence whose i-th element is the result of the
\* response to the i-th request; an object-style batch yields the mapping
\* from each response's id to its result.
C11_BatchMatchesRequests ==
    AnsweredEach =>
        IF creq.style = "array"
        THEN /\ csettled.kind = "return"
             /\ csettled.value.t = "array"
             /\ Len(csettled.value.a) = Len(creq.ids)
             /\ \A i \in 1..Len(creq.ids) : csettled.value.a[i] = ResultOf(creq.ids[i])
        ELSE ObjectOutputById

\* C11 (amended): the i-th element of the output of an array-style batch is
\* the result of the i-th response of the reply, which is the result of the
\* i-th request when the server lists its responses in the order of the
\* requests; an object-style batch yields the mapping from each response's
\* id to its result, whatever the order of the responses.
C11_BatchMatchesReplyPositions ==
    AnsweredEach =>
        IF creq.style = "array"
        THEN /\ csettled.kind = "return"
             /\ csettled.value.t = "array"
             /\ Len(csettled.value.a) = Len(creq.ids)
             /\ \A i \in 1..Len(creq.ids) :
                   /\ csettled.value.a[i] = DecodedReply(cres).a[i].f["result"]
                   /\ InRequestOrder => csettled.value.a[i] = ResultOf(creq.ids[i])
        ELSE ObjectOutputById

C11_Witness ==
    /\ AnsweredEach
    /\ creq.style = "array"
    /\ Len(creq.ids) = 2
    /\ ~InRequestOrder
    /\ csettled.kind = "return"
    /\ csettled.value.a[1] # csettled.value.a[2]

\* C12: a Client.call whose transport succeeded resolves with undefined
\* exactly when the body was empty and isNotification was set; in every other
\* case it settles with what validateResponse makes of the body, unwrapped,
\* so an empty body for a call that is no notification is rejected with a
\* StructuredError.
C12_CallResolvesNothingOnlyForNotification ==
    (creq.op = "call" /\ csettled # Pending /\ TransportSucceeded(cres)) =>
        LET r == DecodedReply(cres)
            v == validateResponse(r)
        IN  /\ (csettled.kind = "return" /\ csettled.value = Undef)
                   <=> (r = Undef /\ creq.isNotification)
            /\ ~(r = Undef /\ creq.isNotification) =>
                   IF v.kind = "throw"
                   THEN csettled = v
                   ELSE csettled = Return(v.value.f["result"])
            /\ (r = Undef /\ ~creq.isNotification) =>
                   /\ csettled.kind = "throw"
                   /\ IsStructuredError(csettled.error)

C12_Witness ==
    /\ creq.op = "call"
    /\ ~creq.isNotification
    /\ TransportSucceeded(cres)
    /\ cres.status = 204
    /\ csettled.kind = "throw"
    /\ csettled.error.code = Num(-32003)

\* The Bearer values a Headers object carries under Authorization.
BearerValues(h) ==
    IF "authorization" \in DOMAIN h
    THEN SelectSeq(h["authorization"], LAMBDA v : v[1] = "Bearer")
    ELSE <<>>

\* A Headers object without its Bearer values.
ConfiguredValues(h) ==
    [name \in {n \in DOMAIN h : SelectSeq(h[n], LAMBDA v : v[1] # "Bearer") # <<>>} |->
        SelectSeq(h[name], LAMBDA v : v[1] # "Bearer")]

\* C13: a Client.call made with a credential sends the stored headers plus
\* one Authorization value, the Bearer credential; a call made without one
\* sends the stored headers; and the stored headers are those the constructor
\* built, so that no call carries the credential of an earlier call.
C13_CredentialNotPersisted ==
    /\ cheaders \in {constructor(h) : h \in OptionsHeaders}
    /\ creq.op = "call" =>
          /\ ConfiguredValues(csent) = cheaders
          /\ BearerValues(csent) = IF creq.jwt \in {"undefined", ""}
                                   THEN <<>>
                                   ELSE << <<"Bearer", creq.jwt>> >>

C13_Witness ==
    /\ cbearer
    /\ creq.op = "call"
    /\ creq.jwt = "undefined"
    /\ "authorization" \in DOMAIN cheaders
    /\ csent = cheaders
    /\ BearerValues(csent) = <<>>

(***************************************************************************)
(* Claims about the emission bus (SpecTable, Spec) and the end of          *)
(* handleWs (SpecFrames)                                                   *)
(***************************************************************************)
\* C14: a channel handled with disableInternalMethods set is never
\* registered on the bus, whatever its table holds: no emission starts a
\* continuation on it and no push write is attempted on it.
C14_DisabledNeverPushed ==
    \A c \in Chans :
        disable[c] =>
            /\ c \notin listeners
            /\ pushed[c] = <<>>
            /\ \A t \in tasks : t.c # c
            /\ \A e \in 1..Len(emitted) : emitted[e].idsAt[c] = {}

C14_Witness ==
    \E c \in Chans, e \in 1..Len(emitted) :
        /\ disable[c]
        /\ emitted[e].method \in DOMAIN store[c]
        /\ store[c][emitted[e].method] # {}
        /\ pushed[c] = <<>>
        /\ tasks = {}

\* The push writes attempted on c for the id of emission e.
PushesOfId(c, e, id) == {i \in PushesOf(c, e) : pushed[c][i].id = id}

\* The continuations of emission e on c that still await the builder.
PendingOf(c, e) == {t \in tasks : t.c = c /\ t.e = e}

\* C15: after a push write failed on a channel, the channel is not
\* registered, the write was attempted once and its continuation is gone (no
\* retry), handleWs of the channel has not been made to raise, and every
\* other id and channel of the same emission still has its continuation
\* pending or its write attempted.
C15_PushFailureDeregistersOnly ==
    \A c \in Chans :
        \A i \in 1..Len(pushed[c]) :
            ~pushed[c][i].ok =>
                LET e == pushed[c][i].e
                    id == pushed[c][i].id
                IN  /\ c \notin listeners
                    /\ PushesOfId(c, e, id) = {i}
                    /\ \A t \in PendingOf(c, e) : t.id # id
                    /\ pc[c] # "raised"
                    /\ \A d \in Chans :
                          \A other \in emitted[e].idsAt[d] :
                              \/ \E t \in PendingOf(d, e) : t.id = other
                              \/ PushesOfId(d, e, other) # {}

C15_Witness ==
    \E c \in Chans, e \in 1..Len(emitted) :
        /\ Cardinality(emitted[e].idsAt[c]) = 2
        /\ Cardinality(PushesOf(c, e)) = 1
        /\ \A i \in PushesOf(c, e) : ~pushed[c][i].ok
        /\ Cardinality(PendingOf(c, e)) = 1
        /\ c \notin listeners

\* C16: once the catch block of handleWs has run, the channel is not
\* registered, socket.close was called, once and with code 1000, exactly if
\* the catch block found the socket not closed, and handleWs has returned
\* whatever the outcome of that close.
C16_ReadFailureClosesOnce ==
    \A c \in Chans :
        IF catchSock[c] = "none"
        THEN closeCalls[c] = <<>>
        ELSE /\ c \notin listeners
             /\ closeCalls[c] = IF catchSock[c] = "open" THEN <<1000>> ELSE <<>>
             /\ sock[c] = "closed"
             /\ pc[c] = "done"

C16_Witness ==
    \E c \in Chans :
        /\ ~disable[c]
        /\ nframes[c] > 0
        /\ catchSock[c] = "open"
        /\ closeCalls[c] = <<1000>>
        /\ c \notin listeners
        /\ pc[c] = "done"

\* The channel is closed: a close frame was received or the socket is closed.
Closed(c) == closeSeen[c] \/ sock[c] = "closed"

\* C17: on a closed channel every continuation an emission started is still
\* pending or has attempted its write, once; a write that failed left the
\* channel unregistered and handleWs not raised.
C17_PendingSurvivesClose ==
    \A c \in Chans, e \in 1..Len(emitted) :
        Closed(c) =>
            /\ \A id \in emitted[e].idsAt[c] :
                  Cardinality(PushesOfId(c, e, id))
                      = IF \E t \in PendingOf(c, e) : t.id = id THEN 0 ELSE 1
            /\ \A i \in PushesOf(c, e) :
                  ~pushed[c][i].ok => (c \notin listeners /\ pc[c] # "raised")

C17_Witness ==
    \E c \in Chans, e \in 1..Len(emitted) :
        /\ closeSeen[c]
        /\ c \notin emitted[e].closedAt
        /\ PendingOf(c, e) = {}
        /\ PushesOf(c, e) # {}
        /\ \A i \in PushesOf(c, e) : ~pushed[c][i].ok
        /\ pc[c] = "loop"

\* The step is one of handleWs or emitListener of channel c.
OwnStep(c) ==
    \/ pc'[c] # pc[c]
    \/ closeSeen'[c] # closeSeen[c]
    \/ pushed'[c] # pushed[c]

\* Every id a registered channel held under the method of an emission has one
\* continuation pending or one write attempted on that channel.
EachServed(em, ts, ps) ==
    \A c \in Chans, e \in 1..Len(em) :
        \A id \in em[e].idsAt[c] :
            Cardinality({t \in ts : t.c = c /\ t.e = e /\ t.id = id})
              + Cardinality({i \in 1..Len(ps[c]) : ps[c][i].e = e /\ ps[c][i].id = id}) = 1

\* C18: the registration of a channel changes only in a step of that channel,
\* a step of one channel leaves the registration of the other as it was, and
\* after every step each channel has one continuation or one write for each
\* id it held when an emission was raised.
C18_ChannelsIndependent ==
    [][/\ \A c \in Chans : ((c \in listeners') # (c \in listeners)) => OwnStep(c)
       /\ \A c, d \in Chans :
             (c # d /\ OwnStep(c)) => ((d \in listeners') = (d \in listeners))
       /\ EachServed(emitted', tasks', pushed')]_vars

C18_Witness ==
    \E c, d \in Chans, e \in 1..Len(emitted) :
        /\ c # d
        /\ emitted[e].idsAt[c] \cap emitted[e].idsAt[d] # {}
        /\ \E i \in PushesOf(c, e) : ~pushed[c][i].ok
        /\ \E j \in PushesOf(d, e) : pushed[d][j].ok
        /\ c \notin listeners
        /\ d \in listeners

\* C19 as stated: whenever handleWs has returned for a channel, the channel
\* is not registered on the bus.
C19_NoListenerAfterReturn ==
    \A c \in Chans : pc[c] = "done" => c \notin listeners

\* A push write on c has failed.
PushFailed(c) == \E i \in 1..Len(pushed[c]) : ~pushed[c][i].ok

\* C20 as stated: a push write that failed is the last one attempted on its
\* channel.
C20_NoPushAfterFailure ==
    \A c \in Chans :
        \A i \in 1..Len(pushed[c]) : ~pushed[c][i].ok => i = Len(pushed[c])

\* C20 (amended): once a push write has failed on a channel, no step starts
\* a continuation on that channel, so that no emission raised afterwards
\* attempts a write on it; the continuations started before the failure still
\* attempt theirs.
C20_NoPushStartedAfterFailure ==
    [][\A c \in Chans :
          PushFailed(c) =>
              /\ c \notin listeners'
              /\ {t \in tasks' : t.c = c} \subseteq tasks]_vars

C20_Witness ==
    \E c \in Chans :
        /\ Len(pushed[c]) = 2
        /\ ~pushed[c][1].ok
        /\ pushed[c][2].e # pushed[c][1].e
        /\ Len(emitted) = 3
        /\ emitted[3].idsAt[c] = {}
        /\ c \notin listeners

====
